---------------------------- MODULE Spec2Model ----------------------------
(***************************************************************************)
(* Model of fix_repo.py: a batch script that reads every file matched by   *)
(* a glob, rewrites client.execute(...) call sites into tagged templates   *)
(* with regular-expression substitutions, converts two SQL dialect idioms, *)
(* and writes a file back when its text changed.                           *)
(*                                                                         *)
(* A text is a sequence of lexemes.  Every character the script's regular  *)
(* expressions and string methods test individually (quotes, brackets,     *)
(* braces, parentheses, comma, whitespace, ?, =, $) is a lexeme of its     *)
(* own; a word that the patterns only ever match as a whole                *)
(* ("client.execute(", "sql:", "args:", "COLLATE", identifiers) is one     *)
(* lexeme.  A pattern atom therefore consumes whole lexemes, and matching  *)
(* on lexemes is matching on the characters they spell.                    *)
(***************************************************************************)
EXTENDS Integers, Sequences, FiniteSets, TLC

\* ------------------------------------------------------------------------
\* Bounds of the model
\* ------------------------------------------------------------------------

\* Number of files the glob returns in the batch specification.
NumFiles == 2

\* Number of segments concatenated into one file text (PassSpec).
MaxSegs == 2

\* Number of lexemes of an SQL template given to the placeholder rewriter.
MaxSqlLen == 4

\* Number of argument expressions of an argument list (RewriteSpec).
MaxArgs == 3

\* ------------------------------------------------------------------------
\* Lexemes
\* ------------------------------------------------------------------------

\* The three quote characters of ['\"`].
DQ == "\""
SQ == "'"
\* The backquote character (the module's lexer accepts no backquote in a string).
BT == "BACKTICK"
SP == " "
NL == "\n"

\* What reading past either end of a text yields to a matcher: no lexeme.
EOT == ""

At(s, i) == IF i >= 1 /\ i <= Len(s) THEN s[i] ELSE EOT

\* \s of the regular expressions, and the default of str.strip().
IsSpace(t) == t \in {SP, NL}

\* ['\"`]
IsQuote(t) == t \in {DQ, SQ, BT}

\* COLLATE and NOCASE under re.IGNORECASE.
IsCollate(t) == t \in {"COLLATE", "collate", "Collate"}

IsNocase(t) == t \in {"NOCASE", "nocase", "NoCase"}

\* The least index of a set of indices, or 0: a scan from the left stops at
\* the first place where a pattern matches.
Least(S) == IF S = {} THEN 0 ELSE CHOOSE j \in S : \A k \in S : j <= k

\* \s* (greedy): the first index >= i that holds no whitespace.
RECURSIVE SkipWs(_, _)
SkipWs(s, i) == IF IsSpace(At(s, i)) THEN SkipWs(s, i + 1) ELSE i

\* The first index >= i holding lexeme t, or 0.
IndexOf(s, t, i) == Least({j \in i..Len(s) : s[j] = t})

\* Whether the lexemes of lit stand in s from index i on.
LitAt(s, lit, i) ==
  /\ i >= 1
  /\ i + Len(lit) - 1 <= Len(s)
  /\ \A k \in 1..Len(lit) : s[i + k - 1] = lit[k]

Slice(s, a, b) == IF a > b THEN <<>> ELSE SubSeq(s, a, b)

NoMatch == [end |-> 0, out |-> <<>>]


\* ------------------------------------------------------------------------
\* convert_client_execute: shape 1, client.execute("...")
\* ------------------------------------------------------------------------

CE == "client.execute("

\* f"client`{val}`": both branches of repl_simple return the same text.
repl_simple(q, val) == IF q = BT THEN <<"client", BT>> \o val \o <<BT>>
                                 ELSE <<"client", BT>> \o val \o <<BT>>

\* (.*?)\1\s*\) from index i on: the first index e >= i that holds the
\* opening quote q with, after optional whitespace, a closing parenthesis;
\* 0 when there is none.
SimpleClose(s, q, i) ==
  Least({e \in i..Len(s) : s[e] = q /\ At(s, SkipWs(s, e + 1)) = ")"})

\* client\.execute\(\s*(['\"`])(.*?)\1\s*\) with re.DOTALL, tried at index i:
\* the index of the last lexeme matched (0: no match) and the replacement.
MatchSimple(s, i) ==
  IF At(s, i) # CE THEN NoMatch
  ELSE LET j == SkipWs(s, i + 1)
           q == At(s, j)
       IN IF ~IsQuote(q) THEN NoMatch
          ELSE LET e == SimpleClose(s, q, j + 1)
               IN IF e = 0 THEN NoMatch
                  ELSE [end |-> SkipWs(s, e + 1),
                        out |-> repl_simple(q, Slice(s, j + 1, e - 1))]

\* re.sub from index i on: the text up to the leftmost match is copied, the
\* match is replaced, and the scan resumes after it.
RECURSIVE SubSimpleFrom(_, _)
SubSimpleFrom(s, i) ==
  LET j == Least({k \in i..Len(s) : MatchSimple(s, k).end # 0})
  IN IF j = 0 THEN Slice(s, i, Len(s))
     ELSE Slice(s, i, j - 1) \o MatchSimple(s, j).out
            \o SubSimpleFrom(s, MatchSimple(s, j).end + 1)

SubSimple(s) == SubSimpleFrom(s, 1)

\* ------------------------------------------------------------------------
\* convert_client_execute: shape 2, client.execute({ sql: "...", args: [...] })
\* ------------------------------------------------------------------------

\* s.strip(chars): the lexemes of s without the leading and trailing ones
\* that belong to chars.
Strip(s, chars) ==
  LET keep == {j \in 1..Len(s) : s[j] \notin chars}
  IN IF keep = {} THEN <<>>
     ELSE Slice(s, CHOOSE a \in keep : \A j \in keep : a <= j,
                   CHOOSE b \in keep : \A j \in keep : b >= j)

\* re.split(r',\s*', s) from index i on: the pieces of s between the
\* separators, a separator being a comma with the whitespace that follows it.
RECURSIVE SplitFrom(_, _)
SplitFrom(s, i) ==
  LET c == IndexOf(s, ",", i)
  IN IF c = 0 THEN <<Slice(s, i, Len(s))>>
     ELSE <<Slice(s, i, c - 1)>> \o SplitFrom(s, SkipWs(s, c + 1))

SplitArgs(s) == SplitFrom(s, 1)

\* [a.strip() for a in args if a.strip()]
RECURSIVE StripNonEmpty(_)
StripNonEmpty(pieces) ==
  IF pieces = <<>> THEN <<>>
  ELSE LET a == Strip(Head(pieces), {SP, NL})
       IN IF a = <<>> THEN StripNonEmpty(Tail(pieces))
          ELSE <<a>> \o StripNonEmpty(Tail(pieces))

\* The argument list repl_complex reads from the bracketed match group.
ParseArgs(args_str) ==
  StripNonEmpty(SplitArgs(Strip(args_str, {"[", "]", SP, NL})))

\* f'${{{arg}}}'
Interp(arg) == <<"$", "{">> \o arg \o <<"}">>

\* s.replace('?', new, 1): the first ? of s becomes new.
ReplaceFirst(s, new) ==
  LET p == IndexOf(s, "?", 1)
  IN IF p = 0 THEN s
     ELSE Slice(s, 1, p - 1) \o new \o Slice(s, p + 1, Len(s))

\* The loop over args, from the k-th argument on.
RECURSIVE ReplaceArgs(_, _, _)
ReplaceArgs(result_sql, args, k) ==
  IF k > Len(args) THEN result_sql
  ELSE ReplaceArgs(ReplaceFirst(result_sql, Interp(args[k])), args, k + 1)

repl_complex(sql, args_str) ==
  <<"client", BT>> \o ReplaceArgs(sql, ParseArgs(args_str), 1) \o <<BT>>

\* ['\"`]\s*,\s*args:\s*(\[[^\]]*\])\s*\}\s*\) tried with the closing quote at
\* index e: <<index of the last lexeme, first and last index of group 2>>,
\* or <<0, 0, 0>>.
ComplexTail(s, e) ==
  LET p1 == SkipWs(s, e + 1)
      p2 == SkipWs(s, p1 + 1)
      p3 == SkipWs(s, p2 + 1)
      p4 == IndexOf(s, "]", p3 + 1)
      p5 == SkipWs(s, p4 + 1)
      p6 == SkipWs(s, p5 + 1)
  IN IF /\ IsQuote(At(s, e))
        /\ At(s, p1) = ","
        /\ At(s, p2) = "args:"
        /\ At(s, p3) = "["
        /\ p4 # 0
        /\ At(s, p5) = "}"
        /\ At(s, p6) = ")"
     THEN <<p6, p3, p4>> ELSE <<0, 0, 0>>

\* (.*?) followed by the tail: the first index e >= i where the tail matches.
ComplexClose(s, i) == Least({e \in i..Len(s) : ComplexTail(s, e)[1] # 0})

\* client\.execute\(\s*\{\s*sql:\s*['\"`] : the index of the opening quote
\* when the head of shapes 2 and 3 stands at index i, else 0.
ObjectHead(s, i) ==
  LET a == SkipWs(s, i + 1)
      b == SkipWs(s, a + 1)
      c == SkipWs(s, b + 1)
  IN IF /\ At(s, i) = CE
        /\ At(s, a) = "{"
        /\ At(s, b) = "sql:"
        /\ IsQuote(At(s, c))
     THEN c ELSE 0

\* The pattern of line 39 with re.DOTALL, tried at index i.
MatchComplex(s, i) ==
  LET c == ObjectHead(s, i)
  IN IF c = 0 THEN NoMatch
     ELSE LET e == ComplexClose(s, c + 1)
          IN IF e = 0 THEN NoMatch
             ELSE LET t == ComplexTail(s, e)
                  IN [end |-> t[1],
                      out |-> repl_complex(Slice(s, c + 1, e - 1),
                                           Slice(s, t[2], t[3]))]

RECURSIVE SubComplexFrom(_, _)
SubComplexFrom(s, i) ==
  LET j == Least({k \in i..Len(s) : MatchComplex(s, k).end # 0})
  IN IF j = 0 THEN Slice(s, i, Len(s))
     ELSE Slice(s, i, j - 1) \o MatchComplex(s, j).out
            \o SubComplexFrom(s, MatchComplex(s, j).end + 1)

SubComplex(s) == SubComplexFrom(s, 1)

convert_client_execute(content) == SubComplex(SubSimple(content))

\* ------------------------------------------------------------------------
\* The file loop: dialect substitutions and shape 3
\* ------------------------------------------------------------------------

\* The replacement of line 51 written in lower case.
CollateReplLower == <<"ilike", SP, "?">>

\* 'ILIKE ?', the replacement of line 51.
CollateRepl == <<"ILIKE", SP, "?">>

\* =\s*\?\s*COLLATE\s+NOCASE with re.IGNORECASE, tried at index i.
MatchCollate(s, i) ==
  LET a == SkipWs(s, i + 1)
      b == SkipWs(s, a + 1)
      c == SkipWs(s, b + 1)
  IN IF /\ At(s, i) = "="
        /\ At(s, a) = "?"
        /\ IsCollate(At(s, b))
        /\ c > b + 1
        /\ IsNocase(At(s, c))
     THEN [end |-> c, out |-> CollateRepl] ELSE NoMatch

RECURSIVE SubCollateFrom(_, _)
SubCollateFrom(s, i) ==
  LET j == Least({k \in i..Len(s) : MatchCollate(s, k).end # 0})
  IN IF j = 0 THEN Slice(s, i, Len(s))
     ELSE Slice(s, i, j - 1) \o MatchCollate(s, j).out
            \o SubCollateFrom(s, MatchCollate(s, j).end + 1)

\* Line 51 with count=1: only the leftmost match is replaced.
SubCollateOnce(s) ==
  LET j == Least({i \in 1..Len(s) : MatchCollate(s, i).end # 0})
  IN IF j = 0 THEN s
     ELSE Slice(s, 1, j - 1) \o MatchCollate(s, j).out
            \o Slice(s, MatchCollate(s, j).end + 1, Len(s))

\* Line 51.
SubCollate(s) == SubCollateFrom(s, 1)

\* json_extract(power, '$[0]')
JsonPath ==
  <<"json_extract", "(", "power", ",", SP, SQ, "$", "[", "0", "]", SQ, ")">>

\* "json_extract(power, '$[0]') = ? COLLATE NOCASE"
JsonCollate == JsonPath \o <<SP, "=", SP, "?", SP, "COLLATE", SP, "NOCASE">>

\* "json_extract(power, '$[0]') ILIKE ?"
JsonIlike == JsonPath \o <<SP, "ILIKE", SP, "?">>

\* "power->>0 ILIKE ?"
PowerIlike == <<"power", "->>", "0", SP, "ILIKE", SP, "?">>

\* str.replace(old, new): every occurrence of old, left to right, none
\* overlapping another.
RECURSIVE ReplaceAllFrom(_, _, _, _)
ReplaceAllFrom(s, old, new, i) ==
  LET j == Least({k \in i..Len(s) : LitAt(s, old, k)})
  IN IF j = 0 THEN Slice(s, i, Len(s))
     ELSE Slice(s, i, j - 1) \o new \o ReplaceAllFrom(s, old, new, j + Len(old))

\* Lines 54-57.
ReplaceJsonCollate(s) == ReplaceAllFrom(s, JsonCollate, PowerIlike, 1)

\* Lines 58-61.
ReplaceJsonIlike(s) == ReplaceAllFrom(s, JsonIlike, PowerIlike, 1)

repl_no_args(sql) == <<"client", BT>> \o sql \o <<BT>>

\* ['\"`]\s*\}\s*\) tried with the closing quote at index e: the index of the
\* last lexeme, or 0.
NoArgsTail(s, e) ==
  LET p1 == SkipWs(s, e + 1)
      p2 == SkipWs(s, p1 + 1)
  IN IF IsQuote(At(s, e)) /\ At(s, p1) = "}" /\ At(s, p2) = ")"
     THEN p2 ELSE 0

NoArgsClose(s, i) == Least({e \in i..Len(s) : NoArgsTail(s, e) # 0})

\* pattern_no_args with re.DOTALL, tried at index i.
MatchNoArgs(s, i) ==
  LET c == ObjectHead(s, i)
  IN IF c = 0 THEN NoMatch
     ELSE LET e == NoArgsClose(s, c + 1)
          IN IF e = 0 THEN NoMatch
             ELSE [end |-> NoArgsTail(s, e),
                   out |-> repl_no_args(Slice(s, c + 1, e - 1))]

RECURSIVE SubNoArgsFrom(_, _)
SubNoArgsFrom(s, i) ==
  LET j == Least({k \in i..Len(s) : MatchNoArgs(s, k).end # 0})
  IN IF j = 0 THEN Slice(s, i, Len(s))
     ELSE Slice(s, i, j - 1) \o MatchNoArgs(s, j).out
            \o SubNoArgsFrom(s, MatchNoArgs(s, j).end + 1)

\* Line 68.
SubNoArgs(s) == SubNoArgsFrom(s, 1)

\* What one iteration of the file loop makes of the text it read.
FullPass(t) ==
  SubNoArgs(ReplaceJsonIlike(ReplaceJsonCollate(SubCollate(
    convert_client_execute(t)))))

\* ------------------------------------------------------------------------
\* Inputs: call sites, SQL literals and argument lists
\* ------------------------------------------------------------------------

Quotes == {DQ, SQ, BT}

\* client.execute("LITERAL")
Shape1Call(q, lit) == <<CE, q>> \o lit \o <<q, ")">>

\* client.execute({ sql: "LITERAL", args: [...] })
Shape2Call(q, lit, arglist) ==
  <<CE, "{", SP, "sql:", SP, q>> \o lit \o <<q, ",", SP, "args:", SP>>
    \o arglist \o <<SP, "}", ")">>

\* client.execute({ sql: "LITERAL" })
Shape3Call(q, lit) ==
  <<CE, "{", SP, "sql:", SP, q>> \o lit \o <<q, SP, "}", ")">>

Select1 == <<"SELECT", SP, "1">>

\* WHERE name = ? COLLATE NOCASE
NameCollate ==
  <<"WHERE", SP, "name", SP, "=", SP, "?", SP, "COLLATE", SP, "NOCASE">>

\* WHERE name ILIKE ?
NameIlike == <<"WHERE", SP, "name", SP, "ILIKE", SP, "?">>

\* json_extract(power, '$[0]') = ? collate nocase
JsonCollateLower ==
  JsonPath \o <<SP, "=", SP, "?", SP, "collate", SP, "nocase">>

\* ORDER BY name COLLATE NOCASE
OrderCollate == <<"ORDER", SP, "BY", SP, "name", SP, "COLLATE", SP, "NOCASE">>

\* a = ? AND b = ?
TwoPlaceholders ==
  <<"a", SP, "=", SP, "?", SP, "AND", SP, "b", SP, "=", SP, "?">>

\* IN (\"x\") : an escaped double quote stands before a closing parenthesis.
QuoteParen == <<"IN", SP, "(", "\\", DQ, "x", "\\", DQ, ")">>

\* a'}) : a single quote stands before a closing brace and parenthesis.
QuoteBrace == <<"a", SQ, "}", ")">>

Literals ==
  {Select1, NameCollate, JsonCollate, JsonCollateLower, OrderCollate,
   TwoPlaceholders, QuoteParen, QuoteBrace}

\* [n]
ArgsN == <<"[", "n", "]">>

\* [x, y]
ArgsXY == <<"[", "x", ",", SP, "y", "]">>

\* [x[0]]
ArgsNested == <<"[", "x", "[", "0", "]", "]">>

\* [fn(a, b), c]
ArgsCall == <<"[", "fn", "(", "a", ",", SP, "b", ")", ",", SP, "c", "]">>

\* [c ? x : y, z]
ArgsTernary ==
  <<"[", "c", SP, "?", SP, "x", SP, ":", SP, "y", ",", SP, "z", "]">>

ArgLists == {ArgsN, ArgsXY, ArgsNested, ArgsCall, ArgsTernary}

Occurs(t, s) == \E i \in 1..Len(s) : s[i] = t

\* The quotes that can delimit lit in a source file: not the single quote
\* when lit holds one unescaped (the double quotes of the literals above are
\* escaped, and none holds a backquote).
QuotesFor(lit) == {q \in Quotes : q = SQ => ~Occurs(SQ, lit)}

\* A file that holds one call site.
CallTexts ==
  UNION {{Shape1Call(q, lit) : q \in QuotesFor(lit)} : lit \in Literals}
    \cup UNION {{Shape3Call(q, lit) : q \in QuotesFor(lit)} : lit \in Literals}
    \cup {Shape2Call(DQ, lit, a) : lit \in Literals, a \in ArgLists}

\* A statement separator: text that no pattern matches.
Sep == <<";", NL>>

\* client.execute({ sql: "SELECT 1", args: [x[0]] }): not one of the three
\* shapes, the argument list holds a nested bracket.
NestedArgsCall == Shape2Call(DQ, Select1, ArgsNested)

\* The pieces a longer file text is made of.
Segments ==
  {Sep, NameCollate, JsonCollate, JsonCollateLower, OrderCollate, JsonIlike,
   Shape1Call(DQ, Select1),
   Shape3Call(DQ, Select1),
   Shape3Call(DQ, QuoteBrace),
   Shape2Call(DQ, TwoPlaceholders, ArgsXY),
   NestedArgsCall}

RECURSIVE Concats(_)
Concats(n) ==
  IF n = 0 THEN {<<>>}
  ELSE LET shorter == Concats(n - 1)
       IN shorter \cup {t \o g : t \in shorter, g \in Segments}

\* The texts of the one file of PassSpec.
Texts == CallTexts \cup Concats(MaxSegs)

\* The texts of the files of the batch.
BatchTexts ==
  {<<>>, Sep, OrderCollate, NameCollate, Shape1Call(DQ, Select1),
   Shape2Call(DQ, TwoPlaceholders, ArgsXY)}

\* SQL templates of the placeholder rewriter: text and placeholders.
RECURSIVE SeqsUpTo(_, _)
SeqsUpTo(S, n) ==
  IF n = 0 THEN {<<>>}
  ELSE LET shorter == SeqsUpTo(S, n - 1)
       IN shorter \cup {Append(t, x) : t \in shorter, x \in S}

SqlTemplates == SeqsUpTo({"a", "?"}, MaxSqlLen)

\* Argument expressions: x, c?x:y, fn(a, b).
ArgExprs ==
  {<<"x">>, <<"c", "?", "x", ":", "y">>, <<"fn", "(", "a", ",", SP, "b", ")">>}

\* ", ".join(exprs)
RECURSIVE JoinArgs(_)
JoinArgs(exprs) ==
  IF exprs = <<>> THEN <<>>
  ELSE IF Len(exprs) = 1 THEN exprs[1]
  ELSE exprs[1] \o <<",", SP>> \o JoinArgs(Tail(exprs))

\* The bracketed lists group 2 of the shape-2 pattern can hold.
ArgStrings ==
  {<<"[">> \o JoinArgs(exprs) \o <<"]">> : exprs \in SeqsUpTo(ArgExprs, MaxArgs)}

\* ------------------------------------------------------------------------
\* State
\* ------------------------------------------------------------------------

VARIABLES
  disk,         \* the text of each file of the directory
  orig,         \* the text each file had when the run began
  opens,        \* per file, how often it was opened for writing
  writes,       \* per file, how often file.write was called
  todo,         \* the files the for loop has not reached yet
  cur,          \* f, the file of the current iteration (0: none yet)
  pc,           \* the line the file loop stands at
  content,      \* the text read from f
  new_content,  \* the text being transformed
  sql,          \* repl_complex: match group 1
  args_str,     \* repl_complex: match group 2
  args,         \* repl_complex: the parsed argument list
  k,            \* repl_complex: the index of arg in args
  result_sql,   \* repl_complex: the template being rewritten
  ret,          \* repl_complex: the value returned
  rpc           \* the line repl_complex stands at

batchVars ==
  <<disk, orig, opens, writes, todo, cur, pc, content, new_content>>

rewriterVars == <<sql, args_str, args, k, result_sql, ret, rpc>>

vars == <<batchVars, rewriterVars>>

Files == 1..NumFiles

\* The file loop has not been entered.
BatchIdle ==
  /\ disk = <<>>
  /\ orig = <<>>
  /\ opens = <<>>
  /\ writes = <<>>
  /\ todo = {}
  /\ cur = 0
  /\ pc = "idle"
  /\ content = <<>>
  /\ new_content = <<>>

\* repl_complex has not been called.
RewriterIdle ==
  /\ sql = <<>>
  /\ args_str = <<>>
  /\ args = <<>>
  /\ k = 0
  /\ result_sql = <<>>
  /\ ret = <<>>
  /\ rpc = "idle"

\* The script starts on a directory of the files fs with texts from T.
BatchStart(fs, T) ==
  /\ disk \in [fs -> T]
  /\ orig = disk
  /\ opens = [f \in fs |-> 0]
  /\ writes = [f \in fs |-> 0]
  /\ todo = fs
  /\ cur = 0
  /\ pc = "for"
  /\ content = <<>>
  /\ new_content = <<>>

Init == BatchStart(Files, BatchTexts) /\ RewriterIdle

\* A directory of one file.
PassInit == BatchStart({1}, Texts) /\ RewriterIdle

\* repl_complex is called on a match.
RewriterInit ==
  /\ BatchIdle
  /\ sql \in SqlTemplates
  /\ args_str \in ArgStrings
  /\ args = <<>>
  /\ k = 0
  /\ result_sql = <<>>
  /\ ret = <<>>
  /\ rpc = "split"

\* ------------------------------------------------------------------------
\* The file loop
\* ------------------------------------------------------------------------

\* for f in files: glob.glob returns the files in no specified order.
ForNext ==
  /\ pc = "for"
  /\ todo # {}
  /\ \E f \in todo :
       /\ cur' = f
       /\ todo' = todo \ {f}
  /\ pc' = "read"
  /\ UNCHANGED <<disk, orig, opens, writes, content, new_content>>
  /\ UNCHANGED rewriterVars

\* The loop ends and with it the script.
ForEnd ==
  /\ pc = "for"
  /\ todo = {}
  /\ pc' = "done"
  /\ UNCHANGED <<disk, orig, opens, writes, todo, cur, content, new_content>>
  /\ UNCHANGED rewriterVars

\* content = file.read()
ReadFile ==
  /\ pc = "read"
  /\ content' = disk[cur]
  /\ new_content' = <<>>
  /\ pc' = "simple"
  /\ UNCHANGED <<disk, orig, opens, writes, todo, cur>>
  /\ UNCHANGED rewriterVars

\* Line 17, on the copy of content that convert_client_execute works on.
ConvertSimple ==
  /\ pc = "simple"
  /\ new_content' = SubSimple(content)
  /\ pc' = "complex"
  /\ UNCHANGED <<disk, orig, opens, writes, todo, cur, content>>
  /\ UNCHANGED rewriterVars

\* Line 40; the function returns and line 49 binds new_content.
ConvertComplex ==
  /\ pc = "complex"
  /\ new_content' = SubComplex(new_content)
  /\ pc' = "collate"
  /\ UNCHANGED <<disk, orig, opens, writes, todo, cur, content>>
  /\ UNCHANGED rewriterVars

\* Line 51.
DialectCollate ==
  /\ pc = "collate"
  /\ new_content' = SubCollate(new_content)
  /\ pc' = "jsoncollate"
  /\ UNCHANGED <<disk, orig, opens, writes, todo, cur, content>>
  /\ UNCHANGED rewriterVars

\* Lines 54-57.
DialectJsonCollate ==
  /\ pc = "jsoncollate"
  /\ new_content' = ReplaceJsonCollate(new_content)
  /\ pc' = "jsonilike"
  /\ UNCHANGED <<disk, orig, opens, writes, todo, cur, content>>
  /\ UNCHANGED rewriterVars

\* Lines 58-61.
DialectJsonIlike ==
  /\ pc = "jsonilike"
  /\ new_content' = ReplaceJsonIlike(new_content)
  /\ pc' = "noargs"
  /\ UNCHANGED <<disk, orig, opens, writes, todo, cur, content>>
  /\ UNCHANGED rewriterVars

\* Line 68.
ConvertNoArgs ==
  /\ pc = "noargs"
  /\ new_content' = SubNoArgs(new_content)
  /\ pc' = "compare"
  /\ UNCHANGED <<disk, orig, opens, writes, todo, cur, content>>
  /\ UNCHANGED rewriterVars

\* Line 70 without its test: the file is written back in any case.
CompareAlways ==
  /\ pc = "compare"
  /\ pc' = "open"
  /\ UNCHANGED <<disk, orig, opens, writes, todo, cur, content, new_content>>
  /\ UNCHANGED rewriterVars

\* if content != new_content:
Compare ==
  /\ pc = "compare"
  /\ pc' = IF content # new_content THEN "open" ELSE "for"
  /\ UNCHANGED <<disk, orig, opens, writes, todo, cur, content, new_content>>
  /\ UNCHANGED rewriterVars

\* open(f, 'w') truncates the file.
OpenForWrite ==
  /\ pc = "open"
  /\ disk' = [disk EXCEPT ![cur] = <<>>]
  /\ opens' = [opens EXCEPT ![cur] = @ + 1]
  /\ pc' = "write"
  /\ UNCHANGED <<orig, writes, todo, cur, content, new_content>>
  /\ UNCHANGED rewriterVars

\* file.write(new_content), and the file is closed.
WriteFile ==
  /\ pc = "write"
  /\ disk' = [disk EXCEPT ![cur] = new_content]
  /\ writes' = [writes EXCEPT ![cur] = @ + 1]
  /\ pc' = "for"
  /\ UNCHANGED <<orig, opens, todo, cur, content, new_content>>
  /\ UNCHANGED rewriterVars

Next ==
  \/ ForNext
  \/ ForEnd
  \/ ReadFile
  \/ ConvertSimple
  \/ ConvertComplex
  \/ DialectCollate
  \/ DialectJsonCollate
  \/ DialectJsonIlike
  \/ ConvertNoArgs
  \/ Compare
  \/ OpenForWrite
  \/ WriteFile

\* The batch over NumFiles files.
Spec == Init /\ [][Next]_vars

\* The batch over one file, of longer texts.
PassSpec == PassInit /\ [][Next]_vars

\* ------------------------------------------------------------------------
\* repl_complex, statement by statement
\* ------------------------------------------------------------------------

\* Lines 25-29.
RewriterSplit ==
  /\ rpc = "split"
  /\ args' = ParseArgs(args_str)
  /\ result_sql' = sql
  /\ k' = 1
  /\ rpc' = "loop"
  /\ UNCHANGED <<sql, args_str, ret>>
  /\ UNCHANGED batchVars

\* Lines 30-32, one iteration.
RewriterReplace ==
  /\ rpc = "loop"
  /\ k <= Len(args)
  /\ result_sql' = ReplaceFirst(result_sql, Interp(args[k]))
  /\ k' = k + 1
  /\ UNCHANGED <<sql, args_str, args, ret, rpc>>
  /\ UNCHANGED batchVars

\* Line 34.
RewriterReturn ==
  /\ rpc = "loop"
  /\ k > Len(args)
  /\ ret' = <<"client", BT>> \o result_sql \o <<BT>>
  /\ rpc' = "return"
  /\ UNCHANGED <<sql, args_str, args, k, result_sql>>
  /\ UNCHANGED batchVars

RewriterNext ==
  \/ RewriterSplit
  \/ RewriterReplace
  \/ RewriterReturn

RewriterSpec == RewriterInit /\ [][RewriterNext]_vars

\* ------------------------------------------------------------------------
\* Properties
\* ------------------------------------------------------------------------

\* The number of lexemes t in s.
Count(s, t) == Cardinality({i \in 1..Len(s) : s[i] = t})

\* Whether lit occurs in s.
Contains(s, lit) == \E i \in 1..Len(s) : LitAt(s, lit, i)

\* client`lit`
Tagged(lit) == <<"client", BT>> \o lit \o <<BT>>

\* The positional binding: the i-th placeholder of s becomes the
\* interpolation of the i-th expression of as, while there is one.
RECURSIVE Bind(_, _)
Bind(s, as) ==
  IF s = <<>> THEN <<>>
  ELSE IF Head(s) = "?" /\ as # <<>>
       THEN <<"$", "{">> \o Head(as) \o <<"}">> \o Bind(Tail(s), Tail(as))
       ELSE <<Head(s)>> \o Bind(Tail(s), as)

\* C1: with as many arguments as placeholders, repl_complex returns the
\* template with the i-th placeholder replaced by ${args[i]}, whatever the
\* argument expressions hold: n interpolations, no placeholder left.
C1_PositionalBinding ==
  (rpc = "return" /\ Len(args) = Count(sql, "?"))
    => ret = Tagged(Bind(sql, args))

\* C2: with m arguments and n > m placeholders, repl_complex replaces the
\* first m placeholders by the interpolations of the m arguments in order and
\* leaves the other n - m placeholders where they stood.
C2_PartialRewrite ==
  (rpc = "return" /\ Len(args) < Count(sql, "?"))
    => ret = Tagged(Bind(sql, args))

\* The expressions of a bracketed list, split on the commas that stand
\* outside every parenthesis and bracket; expr is the expression being read.
RECURSIVE TopLevelFrom(_, _, _, _)
TopLevelFrom(s, i, depth, expr) ==
  IF i > Len(s) THEN (IF expr = <<>> THEN <<>> ELSE <<expr>>)
  ELSE IF s[i] = "," /\ depth = 0
       THEN <<expr>> \o TopLevelFrom(s, SkipWs(s, i + 1), 0, <<>>)
  ELSE TopLevelFrom(s, i + 1,
                    IF s[i] \in {"(", "["} THEN depth + 1
                    ELSE IF s[i] \in {")", "]"} THEN depth - 1 ELSE depth,
                    Append(expr, s[i]))

TopLevelArgs(bracketed) ==
  TopLevelFrom(Slice(bracketed, 2, Len(bracketed) - 1), 1, 0, <<>>)

\* C8: the argument list repl_complex parses holds one expression per comma
\* at bracket depth zero, so that fn(a, b) is one argument.
C8_DepthZeroSplit ==
  rpc \in {"loop", "return"} => args = TopLevelArgs(args_str)

\* C3: the pass is idempotent, a second pass over the text the loop is about
\* to write changes nothing.
C3_Idempotent == pc = "compare" => FullPass(new_content) = new_content

\* C4: a call site that is none of the three shapes (its argument list
\* holds a nested bracket) stands unmodified in the text after the pass; no
\* match reaches from it into a later call site.
C4_FailSoft ==
  (pc = "compare" /\ Contains(content, NestedArgsCall))
    => Contains(new_content, NestedArgsCall)

\* The dialect substitutions of the file loop applied to an SQL literal.
Dialect(lit) == ReplaceJsonIlike(ReplaceJsonCollate(SubCollate(lit)))

\* C5: a file that holds one call of shape 1 or shape 3 becomes the tagged
\* template of the whole literal between the delimiting quotes, for every
\* literal and every quote that can delimit it.
C5_WholeLiteral ==
  pc = "compare" =>
    \A lit \in Literals : \A q \in QuotesFor(lit) :
      content \in {Shape1Call(q, lit), Shape3Call(q, lit)}
        => new_content = Tagged(Dialect(lit))

\* C6: wherever a dialect idiom occurs in the text read, the text after the
\* pass holds its conversion.
C6_IdiomConverted ==
  pc = "compare" =>
    /\ Contains(content, NameCollate) => Contains(new_content, NameIlike)
    /\ Contains(content, JsonCollate) => Contains(new_content, PowerIlike)

\* The loop is through with file f.
Processed(f) == f \notin todo /\ (f = cur => pc \in {"for", "done"})

\* C7: a file the pass leaves as it was read is never opened for writing and
\* keeps its text; a file is opened and written exactly when its transformed
\* text differs from the text read, once, and then holds the transformed text.
C7_Frame ==
  pc # "idle" =>
    \A f \in DOMAIN disk :
      /\ opens[f] <= 1
      /\ writes[f] <= opens[f]
      /\ FullPass(orig[f]) = orig[f] => (opens[f] = 0 /\ disk[f] = orig[f])
      /\ Processed(f) =>
           /\ disk[f] = FullPass(orig[f])
           /\ writes[f] = opens[f]
           /\ opens[f] = 1 <=> FullPass(orig[f]) # orig[f]

\* C7 happens: the run is over, one file was rewritten and another one,
\* which no pattern matches, was not opened.
C7_Witness ==
  /\ pc = "done"
  /\ \E f, g \in DOMAIN disk :
       /\ writes[f] = 1 /\ disk[f] # orig[f]
       /\ opens[g] = 0 /\ disk[g] = orig[g] /\ orig[g] # <<>>

\* The three dialect substitutions in the six orders, on text t.
OrderCode(t) == ReplaceJsonIlike(ReplaceJsonCollate(SubCollate(t)))

OrderJcReJi(t) == ReplaceJsonIlike(SubCollate(ReplaceJsonCollate(t)))

OrderReJiJc(t) == ReplaceJsonCollate(ReplaceJsonIlike(SubCollate(t)))

OrderJcJiRe(t) == SubCollate(ReplaceJsonIlike(ReplaceJsonCollate(t)))

OrderJiReJc(t) == ReplaceJsonCollate(SubCollate(ReplaceJsonIlike(t)))

OrderJiJcRe(t) == SubCollate(ReplaceJsonCollate(ReplaceJsonIlike(t)))

\* C9 as stated: on the text the dialect substitutions are applied to, every
\* order of the three yields the text the order of the code yields.
C9_AnyOrder ==
  pc = "collate" =>
    /\ OrderJcReJi(new_content) = OrderCode(new_content)
    /\ OrderReJiJc(new_content) = OrderCode(new_content)
    /\ OrderJcJiRe(new_content) = OrderCode(new_content)
    /\ OrderJiReJc(new_content) = OrderCode(new_content)
    /\ OrderJiJcRe(new_content) = OrderCode(new_content)

\* C9 as amended: the orders in which the json_extract ILIKE replacement
\* runs after the COLLATE NOCASE substitution yield the text the order of
\* the code yields.
C9_RegexBeforeJsonIlike ==
  pc = "collate" =>
    /\ OrderJcReJi(new_content) = OrderCode(new_content)
    /\ OrderReJiJc(new_content) = OrderCode(new_content)

\* C9 happens: the text holds the json_extract idiom, which the regular
\* expression and both literals match, and the orders convert it.
C9_Witness ==
  /\ pc = "collate"
  /\ Contains(new_content, JsonCollate)
  /\ Contains(OrderJcReJi(new_content), PowerIlike)
  /\ Contains(OrderCode(new_content), PowerIlike)

\* An occurrence of COLLATE NOCASE, in any letter case, at index i.
CollateNocaseAt(s, i) ==
  /\ IsCollate(At(s, i))
  /\ IsSpace(At(s, i + 1))
  /\ IsNocase(At(s, SkipWs(s, i + 1)))

NumCollateNocase(s) == Cardinality({i \in 1..Len(s) : CollateNocaseAt(s, i)})

\* An occurrence of = ? COLLATE NOCASE at index i.
IdiomAt(s, i) ==
  /\ At(s, i) = "="
  /\ At(s, SkipWs(s, i + 1)) = "?"
  /\ CollateNocaseAt(s, SkipWs(s, SkipWs(s, i + 1) + 1))

NumIdioms(s) == Cardinality({i \in 1..Len(s) : IdiomAt(s, i)})

\* C10 as stated: the substitution of line 51 turns a text that holds
\* COLLATE NOCASE into one that holds none and exactly one ILIKE.
C10_NoneLeftOneIlike ==
  [][(pc = "collate" /\ NumCollateNocase(new_content) > 0)
       => /\ NumCollateNocase(new_content') = 0
          /\ Count(new_content', "ILIKE") = 1]_vars

\* C10 as amended: the substitution of line 51 replaces every occurrence of
\* = ? COLLATE NOCASE: none is left, the text gains one ILIKE for each, and
\* the occurrences of COLLATE NOCASE that follow no = ? stay.
C10_EveryIdiomReplaced ==
  [][pc = "collate"
       => /\ NumIdioms(new_content') = 0
          /\ Count(new_content', "ILIKE") =
               Count(new_content, "ILIKE") + NumIdioms(new_content)
          /\ NumCollateNocase(new_content') =
               NumCollateNocase(new_content) - NumIdioms(new_content)]_vars

\* C10 happens: line 51 has run on a text that held the idiom twice.
C10_Witness ==
  /\ pc = "jsoncollate"
  /\ NumIdioms(convert_client_execute(content)) = 2
  /\ Count(new_content, "ILIKE") = 2
  /\ NumCollateNocase(new_content) = 0

=============================================================================
